---------------------------- MODULE Spec2Model ----------------------------
(***************************************************************************)
(* PRIME SMART-2 CVD risk calculator (src/app_final_fixed.py).             *)
(*                                                                         *)
(* Numbers.  The program computes in binary floating point.  The model     *)
(* computes in decimal fixed point:                                        *)
(*   - a risk returned by calculate_smart_risk, and the baseline main()    *)
(*     rounds to one decimal, is an integer number of tenths of a percent  *)
(*     (28.9 % is 289);                                                    *)
(*   - cholesterol and hs-CRP inputs are tenths (the widgets step by 0.1); *)
(*   - the argument and value of log, exp and pow are millionths (Scale);  *)
(*   - a projected risk is an integer number of millionths of a percent.   *)
(* log and exp are evaluated by series on integers, every intermediate     *)
(* below 2^31.  On 200000 random in-range profiles the tenths returned by  *)
(* the fixed-point scorer equal Python's in all but 0.1 % of the cases,    *)
(* where they differ by one tenth (the exact value lies within 0.0002 of a *)
(* rounding boundary).                                                     *)
(***************************************************************************)
EXTENDS Integers, Sequences, FiniteSets

VARIABLES
    \* --- one browser session of main() ---
    inp,        \* the widgets' current values (st.session_state by key)
    calculated, \* st.session_state.calculated
    final_risk, \* st.session_state.final_risk (None until first stored)
    view,       \* what the last script run rendered
    runs,       \* script runs so far in the session
    \* --- calculate_smart_risk applied to a profile ---
    sc_p, sc_absent, sc_result, sc_prev, sc_prevResult, sc_changed, sc_n,
    \* --- calculate_ldl_effect applied to its arguments ---
    le_in, le_out, le_n,
    \* --- calculate_combined_effect applied to its arguments ---
    ce_in, ce_out, ce_n

appVars == <<inp, calculated, final_risk, view, runs>>
scVars  == <<sc_p, sc_absent, sc_result, sc_prev, sc_prevResult, sc_changed, sc_n>>
leVars  == <<le_in, le_out, le_n>>
ceVars  == <<ce_in, ce_out, ce_n>>
vars    == <<appVars, scVars, leVars, ceVars>>

(***************************************************************************)
(* Bounds of the model.                                                    *)
(***************************************************************************)
MaxRuns == 3            \* script runs after the first one, per session
MaxChanges == 2         \* successive single-argument changes of a profile
MaxInterventions == 3   \* length of the active_interventions list
MaxCalls == 2           \* successive calls of calculate_ldl_effect

(***************************************************************************)
(* Fixed-point arithmetic standing for Python floats and the math module.  *)
(***************************************************************************)
Scale == 1000 * 1000

\* Python's None, returned by the two try/except blocks.
None == -1

Min(a, b) == IF a <= b THEN a ELSE b
Max(a, b) == IF a >= b THEN a ELSE b

\* a * b on millionths, a >= 0 and b >= 0: floor(a*b / Scale), by limbs of 1000.
MulS(a, b) ==
    LET a1 == a \div 1000  a0 == a % 1000
        b1 == b \div 1000  b0 == b % 1000
    IN  a1 * b1 + (a1 * b0 + a0 * b1 + (a0 * b0) \div 1000) \div 1000

\* floor(e^k * Scale) for k = -14 .. 7
ETab == << 0, 2, 6, 16, 45, 123, 335, 911, 2478, 6737, 18315, 49787, 135335,
           367879, 1000000, 2718281, 7389056, 20085536, 54598150, 148413159,
           403428793, 1096633158 >>

RECURSIVE ExpHorner(_, _, _)
\* Horner evaluation of the exponential series: 1 + f(1 + f/2 (1 + f/3 ( ... )))
ExpHorner(f, n, t) ==
    IF n = 0 THEN t ELSE ExpHorner(f, n - 1, Scale + MulS(f, t) \div n)

\* e^f for 0 <= f < 1
ExpFrac(f) == ExpHorner(f, 12, Scale)

\* math.exp(x): e^k * e^f with k the integer part of x.  Below e^-14 the value is
\* 0 at this resolution; from e^7 on it is held at e^7 (0.9 ** e^7 is 0 at this
\* resolution, and nothing else in the program takes the exp of more than 0).
ExpS(x) ==
    LET k == x \div Scale
        f == x - k * Scale
    IN  IF k < -14 THEN 0
        ELSE IF k >= 7 THEN ETab[22]
        ELSE MulS(ETab[k + 15], ExpFrac(f))

\* math.exp raises OverflowError above ln(DBL_MAX) = 709.782712...
ExpOverflows(x) == x > 709782712

Log2Floor(n) == CHOOSE k \in 0..30 : 2^k <= n /\ n < 2^(k+1)

RECURSIVE LnHorner(_, _, _)
\* 1 + w/3 + w^2/5 + ... + w^6/13, by Horner, d the odd denominator
LnHorner(w, d, s) ==
    IF d < 1 THEN s ELSE LnHorner(w, d - 2, Scale \div d + MulS(w, s))

\* ln(n) for an integer n >= 1: n = m * 2^k with 1 <= m < 2, and
\* ln(m) = 2 atanh(z), z = (m-1)/(m+1)
LnInt(n) ==
    LET k == Log2Floor(n)
        p == 2^k
        z == ((n - p) * Scale) \div (n + p)
    IN  k * 693147 + 2 * MulS(z, LnHorner(MulS(z, z), 11, Scale \div 13))

\* math.log(crp + 1), crp in tenths (defined for crp + 1 > 0 only)
LogCrpPlus1(crp) == LnInt(crp + 10) - 2302585

\* 0.900 ** e, e >= 0 in millionths: exp(e * ln 0.9), ln 0.9 = -0.105360516
PowPoint9(e) == ExpS(-(MulS(e, 105360) + ((e \div 1000) * 516) \div Scale))

\* round(x * 100, 1) for a fraction x in millionths, in tenths of a percent
RoundTenths(x) == (x + 500) \div 1000

(***************************************************************************)
(* calculate_smart_risk, lines 54-69                                       *)
(***************************************************************************)
Fields == {"age", "sex", "sbp", "total_chol", "hdl", "smoker", "diabetes",
           "egfr", "crp", "vasc_count"}

\* The arguments that enter an arithmetic expression: None there raises TypeError.
\* (sex, smoker and diabetes are only tested: None counts as Female / False.)
ArithmeticFields == {"age", "sbp", "total_chol", "hdl", "egfr", "crp", "vasc_count"}

\* A variant of lines 62-64 that adds the HDL term instead of subtracting it.
LinearPredictorHdlAdded(p, absent) ==
    LET sex_val      == IF "sex" \notin absent /\ p.sex = "Male" THEN 1 ELSE 0
        smoking_val  == IF "smoker" \notin absent /\ p.smoker THEN 1 ELSE 0
        diabetes_val == IF "diabetes" \notin absent /\ p.diabetes THEN 1 ELSE 0
        crp_log      == LogCrpPlus1(p.crp)
    IN  64000 * p.age + 340000 * sex_val + 20000 * p.sbp + 25000 * p.total_chol
        + 25000 * p.hdl + 440000 * smoking_val + 510000 * diabetes_val
        - 20000 * p.egfr + crp_log \div 4 + 400000 * p.vasc_count

\* lp of lines 62-64, in millionths
LinearPredictor(p, absent) ==
    LET sex_val      == IF "sex" \notin absent /\ p.sex = "Male" THEN 1 ELSE 0
        smoking_val  == IF "smoker" \notin absent /\ p.smoker THEN 1 ELSE 0
        diabetes_val == IF "diabetes" \notin absent /\ p.diabetes THEN 1 ELSE 0
        crp_log      == LogCrpPlus1(p.crp)
    IN  64000 * p.age + 340000 * sex_val + 20000 * p.sbp + 25000 * p.total_chol
        - 25000 * p.hdl + 440000 * smoking_val + 510000 * diabetes_val
        - 20000 * p.egfr + crp_log \div 4 + 400000 * p.vasc_count

\* A variant of line 67 that returns the rounded value without clamping it.
ClampRiskOmitted(t) == t

\* line 67: max(1.0, min(99.0, round(risk10 * 100, 1)))
ClampRisk(t) == Max(10, Min(990, t))

\* lines 66-67 on a linear predictor
RiskOfLp(lp) ==
    LET risk10 == Scale - PowPoint9(ExpS(lp - 5800000))
    IN  ClampRisk(RoundTenths(risk10))

\* A variant of the except clause that substitutes the lowest risk for None.
ScoreFailureDefaulted == ClampRisk(0)

\* line 69: what the except clause returns
ScoreFailure == None

calculate_smart_risk(p, absent) ==
    IF absent \cap ArithmeticFields # {} THEN ScoreFailure       \* TypeError
    ELSE IF p.crp + 10 <= 0 THEN ScoreFailure                    \* ValueError: math domain error
    ELSE LET lp == LinearPredictor(p, absent)
         IN  IF ExpOverflows(lp - 5800000) THEN ScoreFailure     \* OverflowError
             ELSE RiskOfLp(lp)

(***************************************************************************)
(* The scorer applied to profiles: the arguments are drawn from the        *)
(* widgets' ranges (lines 144-166) and from values outside them, one       *)
(* argument changes at a time, and an argument may be passed as None.      *)
(***************************************************************************)
\* The valid domain of each numeric argument (the widgets' ranges).
InRange(f, v) ==
    CASE f = "age"        -> 30 <= v /\ v <= 90
      [] f = "sbp"        -> 90 <= v /\ v <= 220
      [] f = "total_chol" -> 20 <= v /\ v <= 100
      [] f = "hdl"        -> 5 <= v /\ v <= 30
      [] f = "egfr"       -> 15 <= v /\ v <= 120
      [] f = "crp"        -> 1 <= v /\ v <= 200
      [] f = "vasc_count" -> 0 <= v /\ v <= 3
      [] OTHER            -> TRUE

InDomain(p, absent) ==
    absent = {} /\ \A f \in ArithmeticFields : InRange(f, p[f])

\* The values an argument takes in the model: the ends and an interior point of
\* its range, and points outside the range.
Values(f) ==
    CASE f = "age"        -> {30, 65, 90, 29, 91, 12000}
      [] f = "sex"        -> {"Male", "Female"}
      [] f = "sbp"        -> {90, 140, 220, 89, 221}
      [] f = "total_chol" -> {20, 50, 100, 19, 101}
      [] f = "hdl"        -> {5, 10, 30, 4, 31}
      [] f = "smoker"     -> BOOLEAN
      [] f = "diabetes"   -> BOOLEAN
      [] f = "egfr"       -> {15, 80, 120, 14, 121}
      [] f = "crp"        -> {1, 20, 21, 200, 0, -5, -10, -20, 201}
      [] f = "vasc_count" -> {0, 1, 3, -1, 4}

\* The widgets' default values (Scenario A of the specification).
DefaultProfile ==
    [age |-> 65, sex |-> "Male", sbp |-> 140, total_chol |-> 50, hdl |-> 10,
     smoker |-> FALSE, diabetes |-> FALSE, egfr |-> 80, crp |-> 20,
     vasc_count |-> 0]

LowestProfile ==
    [age |-> 30, sex |-> "Female", sbp |-> 90, total_chol |-> 20, hdl |-> 30,
     smoker |-> FALSE, diabetes |-> FALSE, egfr |-> 120, crp |-> 1,
     vasc_count |-> 0]

HighestProfile ==
    [age |-> 90, sex |-> "Male", sbp |-> 220, total_chol |-> 100, hdl |-> 5,
     smoker |-> TRUE, diabetes |-> TRUE, egfr |-> 15, crp |-> 200,
     vasc_count |-> 3]

BaseProfiles == {DefaultProfile, LowestProfile, HighestProfile}

\* Values of the variables of the parts a specification leaves alone.
AppIdle == inp = <<>> /\ calculated = FALSE /\ final_risk = None /\ view = <<>>
           /\ runs = 0
ScIdle  == sc_p = <<>> /\ sc_absent = {} /\ sc_result = None /\ sc_prev = <<>>
           /\ sc_prevResult = None /\ sc_changed = "" /\ sc_n = 0
LeIdle  == le_in = <<>> /\ le_out = <<>> /\ le_n = 0
CeIdle  == ce_in = <<>> /\ ce_out = <<>> /\ ce_n = 0

InitScore ==
    /\ sc_p \in BaseProfiles
    /\ sc_absent = {}
    /\ sc_result = calculate_smart_risk(sc_p, {})
    /\ sc_prev = sc_p
    /\ sc_prevResult = sc_result
    /\ sc_changed = ""
    /\ sc_n = 0
    /\ AppIdle /\ LeIdle /\ CeIdle

\* Score the profile again with one argument changed.
ChangeArgument ==
    /\ sc_n < MaxChanges
    /\ \E f \in Fields : \E v \in Values(f) :
         /\ v # sc_p[f]
         /\ sc_p' = [sc_p EXCEPT ![f] = v]
         /\ sc_changed' = f
    /\ sc_result' = calculate_smart_risk(sc_p', sc_absent)
    /\ sc_prev' = sc_p
    /\ sc_prevResult' = sc_result
    /\ sc_n' = sc_n + 1
    /\ UNCHANGED <<sc_absent, appVars, leVars, ceVars>>

\* Score the profile again with one argument passed as None.
OmitArgument ==
    /\ sc_n < MaxChanges
    /\ sc_absent = {}
    /\ \E f \in Fields :
         /\ sc_absent' = {f}
         /\ sc_changed' = f
    /\ sc_result' = calculate_smart_risk(sc_p, sc_absent')
    /\ sc_prev' = sc_p
    /\ sc_prevResult' = sc_result
    /\ sc_n' = sc_n + 1
    /\ UNCHANGED <<sc_p, appVars, leVars, ceVars>>

NextScore == ChangeArgument \/ OmitArgument

SpecScore == InitScore /\ [][NextScore]_vars

(***************************************************************************)
(* The catalogs, lines 11-34                                               *)
(***************************************************************************)
INTERVENTIONS ==
    << [name |-> "Smoking cessation", arr_5yr |-> 5, arr_lifetime |-> 17],
       [name |-> "Antiplatelet (ASA or clopidogrel)", arr_5yr |-> 2,
        arr_lifetime |-> 6] >>

LDL_THERAPIES ==
    [k \in {"Atorvastatin 20 mg", "Atorvastatin 80 mg"} |->
        [reduction |-> IF k = "Atorvastatin 20 mg" THEN 40 ELSE 50]]

Horizons == {"5yr", "10yr", "lifetime"}

(***************************************************************************)
(* calculate_ldl_effect, lines 71-75.  baseline_risk is in tenths of a     *)
(* percent, the LDL values in thousandths of a mmol/L, rrr in thousandths  *)
(* of a percent, the result in millionths of a percent.                    *)
(***************************************************************************)
\* A variant of line 74 without the cap.
LdlRrrUncapped(baseline_ldl, final_ldl) == 22 * (baseline_ldl - final_ldl)

\* lines 73-74: rrr = min(22 * ldl_reduction, 60)
LdlRrr(baseline_ldl, final_ldl) == Min(22 * (baseline_ldl - final_ldl), 60000)

\* line 75: baseline_risk * (1 - rrr/100)
calculate_ldl_effect(baseline_risk, baseline_ldl, final_ldl) ==
    baseline_risk * (100000 - LdlRrr(baseline_ldl, final_ldl))

\* lines 263-271: the percentages of the chosen therapies summed; the selectbox
\* offers statins the catalog does not hold (KeyError, see StatinKnown).
AddOnReduction(add_on) ==
    (IF "Ezetimibe" \in add_on THEN 20 ELSE 0)
    + (IF "PCSK9 inhibitor" \in add_on THEN 60 ELSE 0)

StatinKnown(statin) == statin = "None" \/ statin \in DOMAIN LDL_THERAPIES

StatinReduction(statin) ==
    IF statin = "None" THEN 0 ELSE LDL_THERAPIES[statin].reduction

\* line 271: final_ldl = ldl * (1 - ldl_reduction/100), ldl in tenths of a mmol/L
FinalLdl(ldl, ldl_reduction) == ldl * (100 - ldl_reduction)

(***************************************************************************)
(* calculate_combined_effect, lines 77-99.  baseline_risk is in tenths of  *)
(* a percent, an intervention's arr in percentage points; total_rrr,       *)
(* effective_rrr and final_rrr are millionths; projected_risk, rrr and arr *)
(* of the result are millionths of a percent.                              *)
(***************************************************************************)
\* line 84: the key f"arr_{horizon}"
ArrKey(horizon) ==
    CASE horizon = "5yr" -> "arr_5yr"
      [] horizon = "10yr" -> "arr_10yr"
      [] horizon = "lifetime" -> "arr_lifetime"

\* line 85: (arr / baseline_risk) if baseline_risk > 0 else 0
Contribution(arr, baseline_risk) ==
    IF baseline_risk > 0 THEN (10 * arr * Scale) \div baseline_risk ELSE 0

RECURSIVE TotalRrr(_, _, _)
\* lines 80-85: the loop over active_interventions
TotalRrr(baseline_risk, ivs, key) ==
    IF ivs = <<>> THEN 0
    ELSE Contribution(Head(ivs)[key], baseline_risk)
         + TotalRrr(baseline_risk, Tail(ivs), key)

\* line 88: 1 - math.exp(-0.8 * total_rrr)
EffectiveRrr(total_rrr) ==
    Scale - ExpS(-(8 * (total_rrr \div 10) + (8 * (total_rrr % 10)) \div 10))

\* A variant of line 91 without the cap.
FinalRrrUncapped(effective_rrr) == effective_rrr

\* line 91: min(0.75, effective_rrr)
FinalRrr(effective_rrr) == Min(750000, effective_rrr)

\* The result None (line 99), as a record like the dictionary of line 93.
NoResult == [none |-> TRUE, projected_risk |-> 0, rrr |-> 0, arr |-> 0]

calculate_combined_effect(baseline_risk, active_interventions, horizon) ==
    IF \E i \in 1..Len(active_interventions) :
          ArrKey(horizon) \notin DOMAIN active_interventions[i]
    THEN NoResult                                                \* KeyError
    ELSE LET total_rrr == TotalRrr(baseline_risk, active_interventions,
                                   ArrKey(horizon))
             final_rrr == FinalRrr(EffectiveRrr(total_rrr))
             projected == (baseline_risk * (Scale - final_rrr)) \div 10
         IN  [none |-> FALSE,
              projected_risk |-> projected,
              rrr |-> final_rrr * 100,
              arr |-> baseline_risk * 100000 - projected]

(***************************************************************************)
(* calculate_ldl_effect applied to arguments: any, and as main() derives   *)
(* them from the LDL-C widget and the chosen therapies.                    *)
(***************************************************************************)
LdlBaselines == {0, 6, 289, 900, 990}
LdlLevels == {500, 1750, 3500, 6000}
LdlWidget == {5, 35, 60}
Statins == {"None", "Atorvastatin 20 mg", "Atorvastatin 80 mg",
            "Rosuvastatin 10 mg", "Rosuvastatin 20-40 mg"}
AddOns == {"Ezetimibe", "PCSK9 inhibitor", "Bempedoic acid"}

LdlResult(b, l, f) ==
    [rrr |-> LdlRrr(l, f), projected |-> calculate_ldl_effect(b, l, f)]

InitLdl ==
    /\ le_in \in [baseline_risk : LdlBaselines, baseline_ldl : LdlLevels,
                  final_ldl : LdlLevels]
    /\ le_out = LdlResult(le_in.baseline_risk, le_in.baseline_ldl, le_in.final_ldl)
    /\ le_n = 0
    /\ AppIdle /\ ScIdle /\ CeIdle

\* Any baseline LDL and final LDL.
CallLdlEffect ==
    /\ le_n < MaxCalls
    /\ \E b \in LdlBaselines, l \in LdlLevels, f \in LdlLevels :
         /\ le_in' = [baseline_risk |-> b, baseline_ldl |-> l, final_ldl |-> f]
         /\ le_out' = LdlResult(b, l, f)
    /\ le_n' = le_n + 1
    /\ UNCHANGED <<appVars, scVars, ceVars>>

\* The final LDL of lines 263-271, for the therapies the catalog holds.
CallLdlEffectWithTherapies ==
    /\ le_n < MaxCalls
    /\ \E b \in LdlBaselines, ldl \in LdlWidget,
          statin \in {x \in Statins : StatinKnown(x)}, add_on \in SUBSET AddOns :
         LET f == FinalLdl(ldl, StatinReduction(statin) + AddOnReduction(add_on))
         IN  /\ le_in' = [baseline_risk |-> b, baseline_ldl |-> ldl * 100,
                          final_ldl |-> f]
             /\ le_out' = LdlResult(b, ldl * 100, f)
    /\ le_n' = le_n + 1
    /\ UNCHANGED <<appVars, scVars, ceVars>>

NextLdl == CallLdlEffect \/ CallLdlEffectWithTherapies

SpecLdl == InitLdl /\ [][NextLdl]_vars

(***************************************************************************)
(* calculate_combined_effect applied to arguments: a baseline, a horizon   *)
(* and a list of interventions built up one entry at a time.               *)
(***************************************************************************)
CombinedBaselines == {0, 6, 200, 289, 900}

\* The catalog's entries, an entry of large effect, and an entry without the
\* lifetime reduction.
InterventionPool ==
    {INTERVENTIONS[i] : i \in 1..Len(INTERVENTIONS)}
    \cup {[name |-> "Large effect", arr_5yr |-> 40, arr_lifetime |-> 200],
          [name |-> "No lifetime value", arr_5yr |-> 3]}

InitCombined ==
    /\ ce_in \in [baseline_risk : CombinedBaselines, active_interventions : {<<>>},
                  horizon : Horizons]
    /\ ce_out = calculate_combined_effect(ce_in.baseline_risk, <<>>, ce_in.horizon)
    /\ ce_n = 0
    /\ AppIdle /\ ScIdle /\ LeIdle

\* One more active intervention, and the effect computed again.
AppendIntervention ==
    /\ Len(ce_in.active_interventions) < MaxInterventions
    /\ \E iv \in InterventionPool :
         ce_in' = [ce_in EXCEPT !.active_interventions = Append(@, iv)]
    /\ ce_out' = calculate_combined_effect(ce_in'.baseline_risk,
                     ce_in'.active_interventions, ce_in'.horizon)
    /\ ce_n' = ce_n + 1
    /\ UNCHANGED <<appVars, scVars, leVars>>

NextCombined == AppendIntervention

SpecCombined == InitCombined /\ [][NextCombined]_vars

(***************************************************************************)
(* main(), lines 105-356: one script run.  Streamlit runs the script from  *)
(* the top on every widget change and on every button press; the widgets'  *)
(* values and st.session_state outlive the run, the local variables do     *)
(* not.  An exception no handler catches ends the run where it is raised.  *)
(***************************************************************************)
\* lines 144-169 and 234-254: the widgets' values when the session starts
DefaultInputs ==
    [age |-> 65, sex |-> "Male", diabetes |-> FALSE, smoker |-> FALSE,
     cad |-> FALSE, stroke |-> FALSE, pad |-> FALSE,
     total_chol |-> 50, hdl |-> 10, ldl |-> 35, sbp |-> 140, egfr |-> 80,
     crp |-> 20, horizon |-> "10yr", statin |-> "None", add_on |-> {},
     sbp_target |-> 130, med_diet |-> FALSE]

\* The values a widget takes in the model (its default, and ends of its range);
\* the multiselect gains or loses one option at a time.
WidgetValues(w) ==
    CASE w = "age"        -> {30, 65, 90}
      [] w = "sex"        -> {"Male", "Female"}
      [] w = "total_chol" -> {50, 100}
      [] w = "hdl"        -> {10, 30}
      [] w = "ldl"        -> {5, 35, 60}
      [] w = "sbp"        -> {90, 140, 220}
      [] w = "egfr"       -> {15, 80}
      [] w = "crp"        -> {1, 20}
      [] w = "horizon"    -> Horizons
      [] w = "statin"     -> Statins
      [] w = "add_on"     -> {inp.add_on \cup {a} : a \in AddOns}
                             \cup {inp.add_on \ {a} : a \in AddOns}
      [] w = "sbp_target" -> {110, 130, 150}
      [] OTHER            -> BOOLEAN

Widgets == DOMAIN DefaultInputs

\* line 156: vasc_count = sum([cad, stroke, pad])
VascCount(i) ==
    (IF i.cad THEN 1 ELSE 0) + (IF i.stroke THEN 1 ELSE 0)
    + (IF i.pad THEN 1 ELSE 0)

\* lines 181-183: the arguments of calculate_smart_risk
ProfileOf(i) ==
    [age |-> i.age, sex |-> i.sex, sbp |-> i.sbp, total_chol |-> i.total_chol,
     hdl |-> i.hdl, smoker |-> i.smoker, diabetes |-> i.diabetes,
     egfr |-> i.egfr, crp |-> i.crp, vasc_count |-> VascCount(i)]

\* round(x, 1) of a value x in hundredths, in tenths.  (Python rounds a tie to
\* the even neighbour; the values of lines 188 and 190 are even numbers of
\* hundredths, so no tie arises.)
Round1(hundredths) == (hundredths + 5) \div 10

\* A variant of line 188 with the factor 0.5.
HorizonScaledHalf(risk10, horizon) ==
    CASE horizon = "5yr"      -> 5 * risk10
      [] horizon = "lifetime" -> Min(18 * risk10, 9000)
      [] OTHER                -> 10 * risk10

\* lines 187-190, in hundredths of a percent
HorizonScaled(risk10, horizon) ==
    CASE horizon = "5yr"      -> 6 * risk10
      [] horizon = "lifetime" -> Min(18 * risk10, 9000)
      [] OTHER                -> 10 * risk10

\* lines 181-192: the baseline risk shown and used by the rest of the run
\* (None when the scorer fails; `if baseline_risk:` also skips a risk of 0)
BaselineOf(i) ==
    LET r == calculate_smart_risk(ProfileOf(i), {})
    IN  IF r = None \/ r = 0 THEN r
        ELSE Round1(HorizonScaled(r, i.horizon))

\* A variant of line 275 with the 10 % per 10 mmHg of EVIDENCE_DB["bp"].
BpEffectTenPercent(baseline_risk, sbp, sbp_target) ==
    baseline_risk * 100 * (1000 - Min(10 * (sbp - sbp_target), 250))

\* lines 275-276: bp_rrr = min(0.15 * ((sbp - sbp_target)/10), 0.25), in
\* thousandths; bp_effect = baseline_risk * (1 - bp_rrr)
BpEffect(baseline_risk, sbp, sbp_target) ==
    baseline_risk * 100 * (1000 - Min(15 * (sbp - sbp_target), 250))

\* line 281: next(iv for iv in INTERVENTIONS if iv["name"] == name) finds an entry
NameInCatalog(name) ==
    \E k \in 1..Len(INTERVENTIONS) : INTERVENTIONS[k].name = name

CatalogEntry(name) ==
    INTERVENTIONS[CHOOSE k \in 1..Len(INTERVENTIONS) :
                     /\ INTERVENTIONS[k].name = name
                     /\ \A j \in 1..(k - 1) : INTERVENTIONS[j].name # name]

\* lines 279-282
ActiveInterventions(i) ==
    IF i.med_diet THEN << CatalogEntry("Mediterranean diet") >> ELSE << >>

Min3(a, b, c) == Min(Min(a, b), c)

\* lines 261-289, the body of `if st.button(...)`, on baseline b:
\* how it ends, and the session state it leaves.
Calculate(i, b) ==
    IF ~StatinKnown(i.statin)
    THEN [outcome |-> "KeyError", calculated |-> calculated,        \* line 265
          final_risk |-> final_risk]
    ELSE IF i.med_diet /\ ~NameInCatalog("Mediterranean diet")
    THEN [outcome |-> "StopIteration", calculated |-> calculated,   \* line 281
          final_risk |-> final_risk]
    ELSE
      LET ldl_reduction == StatinReduction(i.statin) + AddOnReduction(i.add_on)
          final_ldl  == FinalLdl(i.ldl, ldl_reduction)
          ldl_effect == calculate_ldl_effect(b, i.ldl * 100, final_ldl)
          bp_effect  == BpEffect(b, i.sbp, i.sbp_target)
          combined   == calculate_combined_effect(b, ActiveInterventions(i),
                                                  i.horizon)
      IN  IF combined.none
          THEN [outcome |-> "done", calculated |-> calculated,
                final_risk |-> final_risk]
          ELSE [outcome |-> "done", calculated |-> TRUE,
                final_risk |-> Min3(ldl_effect, bp_effect,
                                    combined.projected_risk)]

\* One run of the script on widget values i, the button pressed or not.
\* view: what the run rendered (baseline: line 198; post, final, arr: lines
\* 292-301), whether the button was pressed, and how the run ended.
RunMain(i, pressed) ==
    \E b \in {BaselineOf(i)} :
        IF b = None \/ b = 0
        THEN /\ view' = [baseline |-> b, pressed |-> pressed,       \* line 228
                         outcome |-> "stopped", post |-> FALSE,
                         final |-> None, arr |-> 0]
             /\ UNCHANGED <<calculated, final_risk>>
        ELSE LET c == IF pressed THEN Calculate(i, b)
                      ELSE [outcome |-> "done", calculated |-> calculated,
                            final_risk |-> final_risk]
                 shown == c.outcome = "done" /\ c.calculated
             IN  /\ calculated' = c.calculated
                 /\ final_risk' = c.final_risk
                 /\ view' = [baseline |-> b, pressed |-> pressed,
                             outcome |-> c.outcome, post |-> shown,
                             final |-> IF shown THEN c.final_risk ELSE None,
                             arr |-> IF shown THEN b * 100000 - c.final_risk
                                     ELSE 0]

\* The first run of a session: lines 134-135 set calculated, no button pressed.
Init ==
    /\ inp = DefaultInputs
    /\ calculated = FALSE
    /\ final_risk = None
    /\ view = [baseline |-> BaselineOf(DefaultInputs), pressed |-> FALSE,
               outcome |-> "done", post |-> FALSE, final |-> None, arr |-> 0]
    /\ runs = 0
    /\ ScIdle /\ LeIdle /\ CeIdle

\* The user changes one widget: the script runs again, the button not pressed.
ChangeInput ==
    /\ runs < MaxRuns
    /\ \E w \in Widgets : \E v \in WidgetValues(w) :
         /\ v # inp[w]
         /\ inp' = [inp EXCEPT ![w] = v]
    /\ RunMain(inp', FALSE)
    /\ runs' = runs + 1
    /\ UNCHANGED <<scVars, leVars, ceVars>>

\* The user presses "Calculate Treatment Impact": the script runs again.
PressCalculate ==
    /\ runs < MaxRuns
    /\ inp' = inp
    /\ RunMain(inp, TRUE)
    /\ runs' = runs + 1
    /\ UNCHANGED <<scVars, leVars, ceVars>>

Next == ChangeInput \/ PressCalculate

Spec == Init /\ [][Next]_vars

(***************************************************************************)
(* Properties of calculate_smart_risk (under SpecScore)                    *)
(***************************************************************************)
\* C1: whenever calculate_smart_risk returns a number, the 10-year baseline
\* risk it returns lies in [1.0, 99.0] (10 .. 990 tenths of a percent).
C1_RiskWithinBounds ==
    sc_result # None => (10 <= sc_result /\ sc_result <= 990)

\* C1 witness: a profile scored after a change whose unclamped risk rounds to
\* 100.0 and is returned as 99.0.
C1_Witness ==
    /\ sc_n > 0
    /\ sc_absent = {}
    /\ sc_p.crp + 10 > 0
    /\ RoundTenths(Scale - PowPoint9(ExpS(LinearPredictor(sc_p, {}) - 5800000))) > 990
    /\ sc_result = 990

\* C2: for every profile with crp <= -1 (-10 tenths), whatever the other
\* arguments are, calculate_smart_risk ends in failure (None) and returns no
\* number.
C2_CrpAtMostMinusOneFails ==
    sc_p.crp <= -10 => sc_result = None

\* C2 witness: a profile whose crp was changed to -1 or below has been scored.
C2_Witness ==
    /\ sc_changed = "crp"
    /\ sc_p.crp <= -10
    /\ sc_prevResult # None
    /\ sc_result = None

\* C3 (as claimed): the scorer fails, returning no number, whenever an argument
\* is outside its valid domain or absent.
C3_OutOfDomainFails ==
    ~InDomain(sc_p, sc_absent) => sc_result = None

\* The arguments whose increase raises the linear predictor (the others lower it).
RiskRaising == {"age", "sbp", "total_chol", "crp", "vasc_count"}

\* The last step changed numeric argument f alone, between two in-range profiles.
InRangePair ==
    /\ sc_n > 0
    /\ sc_absent = {}
    /\ sc_changed \in ArithmeticFields
    /\ InDomain(sc_prev, {})
    /\ InDomain(sc_p, {})

\* The risk has to go up in the last step (else down).
ExpectRise ==
    (sc_changed \in RiskRaising) = (sc_p[sc_changed] > sc_prev[sc_changed])

\* C8 (as claimed): between two in-range profiles that differ in one argument,
\* the returned risk is strictly higher for the higher age, SBP, total
\* cholesterol, CRP or vascular count, and strictly lower for the higher HDL
\* or eGFR, also where the risk is rounded or clamped.
C8_StrictlyMonotone ==
    InRangePair =>
        IF ExpectRise THEN sc_result > sc_prevResult
        ELSE sc_result < sc_prevResult

\* C8 (amended): between two in-range profiles that differ in one argument, the
\* returned risk is not lower for the higher age, SBP, total cholesterol, CRP
\* or vascular count, and not higher for the higher HDL or eGFR.
C8_WeaklyMonotone ==
    InRangePair =>
        IF ExpectRise THEN sc_result >= sc_prevResult
        ELSE sc_result <= sc_prevResult

\* C8 witness: HDL was raised between two in-range profiles and the returned
\* risk went down.
C8_Witness ==
    /\ InRangePair
    /\ sc_changed = "hdl"
    /\ sc_p.hdl > sc_prev.hdl
    /\ sc_result < sc_prevResult

(***************************************************************************)
(* Properties of calculate_ldl_effect (under SpecLdl)                      *)
(***************************************************************************)
\* C7: for every baseline LDL and final LDL, also a final LDL below zero, the
\* relative risk reduction is at most 60 percent and the projected risk is at
\* least 0.4 * baseline_risk; a negative LDL reduction is not clamped (rrr is
\* 22 times the negative reduction) and the projected risk is above the
\* baseline (equal to it for a baseline of 0).
C7_LdlRrrCapped ==
    LET reduction == le_in.baseline_ldl - le_in.final_ldl
        baseline  == le_in.baseline_risk * 100000
    IN  /\ le_out.rrr <= 60000
        /\ le_out.projected >= 40000 * le_in.baseline_risk
        /\ reduction < 0 =>
             /\ le_out.rrr = 22 * reduction
             /\ le_out.projected >= baseline
             /\ le_in.baseline_risk > 0 => le_out.projected > baseline

\* C7 witness: therapies summing to more than 100 percent gave a final LDL
\* below zero, and the reduction used is the cap of 60 percent.
C7_Witness ==
    /\ le_n > 0
    /\ le_in.final_ldl < 0
    /\ le_in.baseline_risk > 0
    /\ 22 * (le_in.baseline_ldl - le_in.final_ldl) > 60000
    /\ le_out.rrr = 60000
    /\ le_out.projected = 40000 * le_in.baseline_risk

(***************************************************************************)
(* Properties of calculate_combined_effect (under SpecCombined)            *)
(***************************************************************************)
\* C6: for every baseline risk >= 0 and every list of interventions, whenever
\* calculate_combined_effect returns a result its rrr is at most 75 (percent)
\* and its projected_risk is at least 0.25 * baseline_risk.
C6_CombinedRrrCapped ==
    ~ce_out.none =>
        /\ ce_out.rrr <= 75 * Scale
        /\ 4 * ce_out.projected_risk >= ce_in.baseline_risk * 100000

\* C6 witness: several interventions whose uncapped effect exceeds 75 percent
\* were combined, and the result has rrr = 75.
C6_Witness ==
    /\ Len(ce_in.active_interventions) >= 2
    /\ ~ce_out.none
    /\ ce_in.baseline_risk > 0
    /\ EffectiveRrr(TotalRrr(ce_in.baseline_risk, ce_in.active_interventions,
                             ArrKey(ce_in.horizon))) > 750000
    /\ ce_out.rrr = 75 * Scale

(***************************************************************************)
(* Properties of a session of main() (under Spec)                          *)
(***************************************************************************)
\* The 10-year risk of the current inputs, in tenths of a percent.
RiskTenYear == calculate_smart_risk(ProfileOf(inp), {})

\* |a - b|
Dist(a, b) == IF a >= b THEN a - b ELSE b - a

\* C4 (as claimed): the baseline the run shows and uses is the 10-year risk r
\* for "10yr", exactly r * 0.6 for "5yr" and exactly min(r * 1.8, 90.0) for
\* "lifetime", no rounding applied (both sides in hundredths of a percent).
C4_HorizonExact ==
    view.baseline # None =>
        10 * view.baseline =
            (CASE inp.horizon = "5yr"      -> 6 * RiskTenYear
               [] inp.horizon = "lifetime" -> Min(18 * RiskTenYear, 9000)
               [] inp.horizon = "10yr"     -> 10 * RiskTenYear)

\* C4 (amended): the baseline the run shows and uses is r for "10yr", and for
\* "5yr" and "lifetime" the value r * 0.6, respectively min(r * 1.8, 90.0),
\* rounded to one decimal (within 0.05 of it, on the grid of tenths); the
\* lifetime value never exceeds 90.0.
C4_HorizonRounded ==
    view.baseline # None =>
        /\ inp.horizon = "10yr" => view.baseline = RiskTenYear
        /\ inp.horizon = "5yr" =>
             Dist(10 * view.baseline, 6 * RiskTenYear) <= 5
        /\ inp.horizon = "lifetime" =>
             /\ Dist(10 * view.baseline, Min(18 * RiskTenYear, 9000)) <= 5
             /\ view.baseline <= 900

\* C4 witness: a 5-year baseline that differs from r * 0.6 has been shown.
C4_Witness ==
    /\ inp.horizon = "5yr"
    /\ view.baseline # None
    /\ 10 * view.baseline # 6 * RiskTenYear

FreshResult == Calculate(inp, view.baseline)

\* C9 (as claimed): whenever the post-intervention result is displayed, the
\* final risk displayed is the one computed from the displayed baseline and
\* the current inputs, and the displayed absolute reduction is that baseline
\* minus that final risk.
C9_DisplayedResultIsCurrent ==
    view.post =>
        /\ FreshResult.outcome = "done"
        /\ view.final = FreshResult.final_risk
        /\ view.arr = view.baseline * 100000 - FreshResult.final_risk

\* C10 (as claimed): whatever statin, add-ons, lifestyle boxes and horizon are
\* selected, the names a Calculate run looks up exist in the catalogs (the
\* statin is "None" or a key of LDL_THERAPIES, the intervention searched for
\* names an INTERVENTIONS entry), and the run ends with a stored final risk or
\* with no result, never in an unhandled lookup failure.
C10_CalculateNeverRaises ==
    view.pressed =>
        /\ StatinKnown(inp.statin)
        /\ inp.med_diet => NameInCatalog("Mediterranean diet")
        /\ view.outcome \notin {"KeyError", "StopIteration"}

=============================================================================
